---- MODULE Spec2Model ----
(***************************************************************************)
(* K3sBootstrapper.Deploy of kubefire (pkg/bootstrap, k3s): the deploy     *)
(* protocol of a k3s cluster.  The main thread of Deploy runs the pre-hook,*)
(* the readiness wait, the concurrent initialization of every node (one    *)
(* goroutine per node, a WaitGroup as barrier, a buffered channel as       *)
(* failure collector), the bootstrap of the first master and the           *)
(* sequential join of every other listed node.                             *)
(*                                                                         *)
(* Nodes are numbered 1..MaxNodes.  Node 1 is "<cluster>-master-1", the    *)
(* first master.  The collaborators (node manager, ssh client, the retry   *)
(* library) are modelled at their interface: every call returns one of the *)
(* outcomes the interface allows.                                          *)
(***************************************************************************)
EXTENDS Integers, Sequences, FiniteSets, TLC

\* ---------------------------------------------------------------- bounds
\* Largest number of nodes the node manager lists.
MaxNodes == 3
\* Largest number of nodes of a cluster description.
MaxCluster == 2
\* Attempts of retry.Do before it gives up (the library's default is 10).
RetryAttempts == 2
\* Longest content of the node-token file, in characters.
MaxTokenLen == 2

VARIABLES
    pc,          \* position of the main thread in Deploy / init / bootstrap / join
    cluster,     \* the cluster description: [n], the length of cluster.Nodes
    extraOptions,\* the K3sExtraOptions parsed from the cluster spec
    spawned,     \* number of goroutines started by the loop of init
    wgInitNodes, \* counter of the sync.WaitGroup
    chErr,       \* content of the buffered channel: node numbers of the failures
    chClosed,    \* close(chErr) has run
    panicked,    \* a goroutine sent on the closed channel
    tpc,         \* position of each node's goroutine
    attempts,    \* per node: the attempt counter of the running retry.Do
    batchRuns,   \* per node: calls of sshClient.Run in init
    runFailed,   \* per node: the last sshClient.Run of init returned an error
    sessions,    \* open ssh clients: records [owner, node]
    initErr,     \* the multierror built by init: node numbers, in order
    ret,         \* what Deploy returned: "none" while it runs
    firstMaster, \* node returned by GetNode (0: not resolved)
    nodes,       \* the list returned by ListNodes
    ji,          \* index of the join loop into nodes
    perr,        \* error held while the deferred sshClient.Close runs
    tokenBuf,    \* stdout captured from the cat command
    joinToken,   \* token returned by bootstrap
    log          \* calls of the main thread on its collaborators, in order,
                 \* and the failure of the pre-hook

vars == <<pc, cluster, extraOptions, spawned, wgInitNodes, chErr, chClosed,
          panicked, tpc, attempts, batchRuns, runFailed, sessions, initErr,
          ret, firstMaster, nodes, ji, perr, tokenBuf, joinToken, log>>

\* ------------------------------------------------------------ data model
Node == 1..MaxNodes

\* node.Name(cluster.Name, node.Master, 1): the first master is node 1.
FirstMasterName == 1

\* data.Node.IsMaster: the role is part of the node's name; odd nodes are
\* masters ("<cluster>-master-<i>"), even nodes are workers.
IsMaster(n) == n % 2 = 1

\* node.Status.IPAddresses of node n.
Address(n) == n

\* The characters of a node-token file.
Char == {"t", "\n"}

\* Contents the token file may have.
TokenContent == UNION {[1..k -> Char] : k \in 0..MaxTokenLen}

\* Values of the free-form option strings of the cluster spec.
ServerOptValue == {"", "--srv-opt"}
AgentOptValue == {"", "--agt-opt"}

\* config.K3sVersionsEnvVars(version).String()
VersionEnv == "INSTALL_K3S_VERSION=v"

\* Lists the node manager may return: distinct nodes, any order, any length.
NodeList ==
    {s \in UNION {[1..k -> Node] : k \in 0..MaxNodes} :
        \A i, j \in DOMAIN s : i # j => s[i] # s[j]}

\* cluster.Nodes: the first n nodes.
ClusterNodes == 1..cluster.n

\* strings.TrimRight(s, "\n") in the place of TrimSuffix: every trailing
\* newline is removed.
RECURSIVE TrimSuffixAs(_)
TrimSuffixAs(s) ==
    IF Len(s) > 0 /\ s[Len(s)] = "\n"
    THEN TrimSuffixAs(SubSeq(s, 1, Len(s) - 1))
    ELSE s

\* strings.TrimSuffix(s, "\n")
TrimSuffix(s) ==
    IF Len(s) > 0 /\ s[Len(s)] = "\n" THEN SubSeq(s, 1, Len(s) - 1) ELSE s

\* One entry of the log.
Entry(phase, op, n, ok, exec, env, url, token) ==
    [phase |-> phase, op |-> op, node |-> n, ok |-> ok,
     exec |-> exec, env |-> env, url |-> url, token |-> token]

Call(phase, op, n, ok) == Entry(phase, op, n, ok, <<>>, "", 0, <<>>)

\* ------------------------------------------------------------------ Init
Init ==
    /\ pc = "before"
    /\ cluster \in [n : 1..MaxCluster]
    /\ extraOptions = [ServerInstallOpts |-> "", AgentInstallOpts |-> "",
                       ExtraOptions |-> ""]
    /\ spawned = 0
    /\ wgInitNodes = 0
    /\ chErr = <<>>
    /\ chClosed = FALSE
    /\ panicked = FALSE
    /\ tpc = [n \in Node |-> "idle"]
    /\ attempts = [n \in Node |-> 0]
    /\ batchRuns = [n \in Node |-> 0]
    /\ runFailed = [n \in Node |-> FALSE]
    /\ sessions = {}
    /\ initErr = <<>>
    /\ ret = "none"
    /\ firstMaster = 0
    /\ nodes = <<>>
    /\ ji = 0
    /\ perr = "nil"
    /\ tokenBuf = <<>>
    /\ joinToken = <<>>
    /\ log = <<>>

\* Deploy returns err.
Fail(kind) ==
    /\ pc' = "Failed"
    /\ ret' = kind

\* --------------------------------------------------------------- Deploy
\* The values ParseExtraOptions may return: the option strings of the cluster
\* spec, and the version variables as ExtraOptions.
K3sExtraOptions ==
    [ServerInstallOpts : ServerOptValue, AgentInstallOpts : AgentOptValue,
     ExtraOptions : {VersionEnv}]

\* The error of the pre-hook ignored.
BeforeFailsAs(before) == FALSE

\* if before != nil { if err := before(); err != nil { return err } }
BeforeFails(before) == before = "error"

\* The pre-hook. The extra options parsed next are a function of the cluster
\* spec alone, which Deploy never writes: their value is drawn where Deploy
\* first passes them on, at the call of bootstrap.
Before ==
    /\ pc = "before"
    /\ \E before \in {"nil", "ok", "error"} :
        /\ log' = IF before = "error"
                  THEN Append(log, Call("hook", "before", 0, FALSE))
                  ELSE log
        /\ IF BeforeFails(before)
           THEN Fail("before")
           ELSE pc' = "waitRunning" /\ UNCHANGED ret
    /\ UNCHANGED <<cluster, extraOptions, spawned, wgInitNodes, chErr,
                   chClosed, panicked, tpc, attempts, batchRuns, runFailed,
                   sessions, initErr, firstMaster, nodes, ji, perr, tokenBuf,
                   joinToken>>

\* k.nodeManager.WaitNodesRunning(cluster.Name, 5)
WaitNodesRunning ==
    /\ pc = "waitRunning"
    /\ \E ok \in BOOLEAN :
        /\ log' = Append(log, Call("nm", "WaitNodesRunning", 0, ok))
        /\ IF ok
           THEN pc' = "init" /\ UNCHANGED ret
           ELSE Fail("notRunning")
    /\ UNCHANGED <<cluster, extraOptions, spawned, wgInitNodes, chErr,
                   chClosed, panicked, tpc, attempts, batchRuns, runFailed,
                   sessions, initErr, firstMaster, nodes, ji, perr,
                   tokenBuf, joinToken>>

\* ----------------------------------------------------------------- init
\* Variables of the main thread after init, untouched by the init phase.
lateVars == <<firstMaster, nodes, ji, perr, tokenBuf, joinToken, log>>

\* Variables of the goroutines of init.
taskVars == <<tpc, attempts, batchRuns, runFailed>>

\* A buffer that is one short: make(chan error, len(cluster.Nodes) - 1).
ChanCapAs == cluster.n - 1

\* make(chan error, len(cluster.Nodes)): the capacity of chErr.
ChanCap == cluster.n

\* A counter that is one too high: the barrier never opens.
WgAddAs == cluster.n + 1

\* The argument of wgInitNodes.Add: len(cluster.Nodes).
WgAdd == cluster.n

\* wgInitNodes.Add(len(cluster.Nodes)); chErr := make(...)
InitStart ==
    /\ pc = "init"
    /\ wgInitNodes' = WgAdd
    /\ chErr' = <<>>
    /\ pc' = "spawn"
    /\ UNCHANGED <<cluster, extraOptions, spawned, chClosed, panicked,
                   sessions, initErr, ret>>
    /\ UNCHANGED <<taskVars, lateVars>>

\* One turn of the loop over cluster.Nodes: go func(n) {...}(n)
Spawn ==
    /\ pc = "spawn"
    /\ spawned < cluster.n
    /\ spawned' = spawned + 1
    /\ tpc' = [tpc EXCEPT ![spawned + 1] = "connect"]
    /\ pc' = IF spawned + 1 = cluster.n THEN "wait" ELSE "spawn"
    /\ UNCHANGED <<cluster, extraOptions, wgInitNodes, chErr, chClosed,
                   panicked, attempts, batchRuns, runFailed, sessions,
                   initErr, ret>>
    /\ UNCHANGED lateVars

\* A barrier that is one short: wgInitNodes.Add(len(cluster.Nodes) - 1).
WaitReturnsAs == wgInitNodes <= 1

\* wgInitNodes.Wait() returns when the counter is zero.
WaitReturns == wgInitNodes = 0

\* wgInitNodes.Wait(); close(chErr)
WgWait ==
    /\ pc = "wait"
    /\ WaitReturns
    /\ chClosed' = TRUE
    /\ pc' = "collect"
    /\ UNCHANGED <<cluster, extraOptions, spawned, wgInitNodes, chErr,
                   panicked, sessions, initErr, ret>>
    /\ UNCHANGED <<taskVars, lateVars>>

\* The error of init ignored.
InitReturnsErrorAs(err) == FALSE

\* Deploy: if err := k.init(cluster); err != nil { return err }
InitReturnsError(err) == err # <<>>

\* err = e in the place of multierror.Append: the last failure only.
MultiAppendAs(err, e) == <<e>>

\* err = multierror.Append(err, e)
MultiAppend(err, e) == Append(err, e)

\* e, ok := <-chErr: one turn of the collecting loop, and the return of init
\* to Deploy once the channel is closed and drained.
Collect ==
    /\ pc = "collect"
    /\ IF chErr # <<>>
       THEN /\ initErr' = MultiAppend(initErr, Head(chErr))
            /\ chErr' = Tail(chErr)
            /\ UNCHANGED <<pc, ret>>
       ELSE /\ chClosed
            /\ UNCHANGED <<initErr, chErr>>
            /\ IF InitReturnsError(initErr)
               THEN Fail("init")
               ELSE pc' = "getNode" /\ UNCHANGED ret
    /\ UNCHANGED <<cluster, extraOptions, spawned, wgInitNodes, chClosed,
                   panicked, sessions>>
    /\ UNCHANGED <<taskVars, lateVars>>

\* The deferred Close left out: the session stays open.
CloseSessionAs(open, owner, n) == open

\* defer sshClient.Close(): the session of owner on node n is closed.
CloseSession(open, owner, n) == open \ {[owner |-> owner, node |-> n]}

\* The closure returning the error of sshClient.Run as well.
ClosureReturnsErrorAs(connErr, runErr) == connErr \/ runErr

\* The error the retried closure returns: the error of utilssh.NewClient;
\* nil once the client exists, whatever sshClient.Run returned.
ClosureReturnsError(connErr, runErr) == connErr

\* retry.Do calls the closure again when it returned an error and attempts
\* are left.
RetryAgain(err, made) == err /\ made < RetryAttempts

\* utilssh.NewClient in the closure of node n.
TaskConnect(n) ==
    /\ tpc[n] = "connect"
    /\ \E ok \in BOOLEAN :
        IF ok
        THEN /\ sessions' = sessions \cup {[owner |-> "init", node |-> n]}
             /\ attempts' = [attempts EXCEPT ![n] = @ + 1]
             /\ tpc' = [tpc EXCEPT ![n] = "run"]
        ELSE /\ UNCHANGED sessions
             /\ IF RetryAgain(ClosureReturnsError(TRUE, FALSE),
                              attempts[n] + 1)
                THEN /\ attempts' = [attempts EXCEPT ![n] = @ + 1]
                     /\ UNCHANGED tpc
                ELSE /\ attempts' = [attempts EXCEPT ![n] = 0]
                     /\ tpc' = [tpc EXCEPT ![n] = "exit"]
    /\ UNCHANGED <<pc, cluster, extraOptions, spawned, wgInitNodes, chErr,
                   chClosed, panicked, batchRuns, runFailed, initErr, ret>>
    /\ UNCHANGED lateVars

\* sshClient.Run(nil, nil, cmds...) in the closure of node n.
TaskRun(n) ==
    /\ tpc[n] = "run"
    /\ batchRuns' = [batchRuns EXCEPT ![n] = @ + 1]
    /\ \E ok \in BOOLEAN :
        /\ runFailed' = [runFailed EXCEPT ![n] = ~ok]
        /\ tpc' = [tpc EXCEPT ![n] = IF ok THEN "close" ELSE "send"]
    /\ UNCHANGED <<pc, cluster, extraOptions, spawned, wgInitNodes, chErr,
                   chClosed, panicked, attempts, sessions, initErr, ret>>
    /\ UNCHANGED lateVars

\* chErr <- errors.WithMessagef(err, "failed on node (%s)", n.Name): blocks
\* while the buffer is full, panics on a closed channel.
TaskSend(n) ==
    /\ tpc[n] = "send"
    /\ IF chClosed
       THEN /\ panicked' = TRUE
            /\ tpc' = [tpc EXCEPT ![n] = "panic"]
            /\ UNCHANGED chErr
       ELSE /\ Len(chErr) < ChanCap
            /\ chErr' = Append(chErr, n)
            /\ tpc' = [tpc EXCEPT ![n] = "close"]
            /\ UNCHANGED panicked
    /\ UNCHANGED <<pc, cluster, extraOptions, spawned, wgInitNodes, chClosed,
                   attempts, batchRuns, runFailed, sessions, initErr, ret>>
    /\ UNCHANGED lateVars

\* return nil, with the deferred sshClient.Close(); retry.Do decides.
TaskClose(n) ==
    /\ tpc[n] = "close"
    /\ sessions' = CloseSession(sessions, "init", n)
    /\ IF RetryAgain(ClosureReturnsError(FALSE, runFailed[n]), attempts[n])
       THEN /\ tpc' = [tpc EXCEPT ![n] = "connect"]
            /\ UNCHANGED attempts
       ELSE /\ tpc' = [tpc EXCEPT ![n] = "exit"]
            /\ attempts' = [attempts EXCEPT ![n] = 0]
    /\ UNCHANGED <<pc, cluster, extraOptions, spawned, wgInitNodes, chErr,
                   chClosed, panicked, batchRuns, runFailed, initErr, ret>>
    /\ UNCHANGED lateVars

\* The deferred wgInitNodes.Done() of the goroutine of node n.
TaskDone(n) ==
    /\ tpc[n] = "exit"
    /\ wgInitNodes' = wgInitNodes - 1
    /\ tpc' = [tpc EXCEPT ![n] = "done"]
    /\ UNCHANGED <<pc, cluster, extraOptions, spawned, chErr, chClosed,
                   panicked, attempts, batchRuns, runFailed, sessions,
                   initErr, ret>>
    /\ UNCHANGED lateVars

\* ------------------------------------------------------------ bootstrap
\* Variables of the init phase, untouched once init has returned.
initVars == <<spawned, wgInitNodes, chErr, chClosed, panicked, initErr,
              tpc, attempts, batchRuns, runFailed>>

\* k.nodeManager.GetNode(node.Name(cluster.Name, node.Master, 1))
GetNode ==
    /\ pc = "getNode"
    /\ \E ok \in BOOLEAN :
        /\ log' = Append(log, Call("nm", "GetNode", FirstMasterName, ok))
        /\ IF ok
           THEN /\ firstMaster' = FirstMasterName
                /\ pc' = "bsConnect"
                /\ UNCHANGED ret
           ELSE /\ Fail("getNode")
                /\ UNCHANGED firstMaster
    /\ UNCHANGED <<cluster, extraOptions, sessions, nodes, ji, perr,
                   tokenBuf, joinToken>>
    /\ UNCHANGED initVars

\* len(cluster.Nodes) == 1, the isSingleNode argument of bootstrap.
IsSingleNode == cluster.n = 1

\* The test of isSingleNode inverted.
ClusterInitOptAs(isSingleNode) ==
    IF isSingleNode THEN <<"--cluster-init">> ELSE <<>>

\* if !isSingleNode { k3sOpts = append(k3sOpts, "--cluster-init") }
ClusterInitOpt(isSingleNode) ==
    IF ~isSingleNode THEN <<"--cluster-init">> ELSE <<>>

\* if opts != "" { k3sOpts = append(k3sOpts, opts) }
OptIfSet(opts) == IF opts # "" THEN <<opts>> ELSE <<>>

\* k3sOpts of bootstrap: the bind address, the cluster-init flag, the
\* server options.
BootstrapOpts(isSingleNode, eo) ==
    <<"--bind-address">> \o ClusterInitOpt(isSingleNode)
        \o OptIfSet(eo.ServerInstallOpts)

\* The error of bootstrap ignored.
BootstrapReturnsErrorAs(err) == FALSE

\* Deploy: joinToken, err := k.bootstrap(...); if err != nil { return err }
BootstrapReturnsError(err) == err # "nil"

\* The call of bootstrap with the parsed extra options, its
\* utilssh.NewClient, and Deploy's check of its error.
BsConnect ==
    /\ pc = "bsConnect"
    /\ extraOptions' \in K3sExtraOptions
    /\ \E ok \in BOOLEAN :
        /\ log' = Append(log, Call("bootstrap", "connect", firstMaster, ok))
        /\ IF ok
           THEN /\ sessions' = sessions \cup
                        {[owner |-> "bootstrap", node |-> firstMaster]}
                /\ pc' = "bsInstall"
                /\ UNCHANGED ret
           ELSE /\ UNCHANGED sessions
                /\ IF BootstrapReturnsError("connect")
                   THEN Fail("connect")
                   ELSE pc' = "listNodes" /\ UNCHANGED ret
    /\ UNCHANGED <<cluster, firstMaster, nodes, ji, perr, tokenBuf,
                   joinToken>>
    /\ UNCHANGED initVars

\* The error of a command of bootstrap ignored: the loop goes on.
CommandFailsAs(ok) == FALSE

\* bootstrap: err := sshClient.Run(...); if err != nil { return "", err }
CommandFails(ok) == ~ok

\* sshClient.Run of the k3s-install.sh command of bootstrap.
BsInstall ==
    /\ pc = "bsInstall"
    /\ \E ok \in BOOLEAN :
        /\ log' = Append(log,
                Entry("bootstrap", "install", firstMaster, ok,
                      BootstrapOpts(IsSingleNode, extraOptions),
                      extraOptions.ExtraOptions, 0, <<>>))
        /\ IF ~CommandFails(ok)
           THEN pc' = "bsCat" /\ UNCHANGED perr
           ELSE pc' = "bsClose" /\ perr' = "command"
    /\ UNCHANGED <<cluster, extraOptions, sessions, ret, firstMaster, nodes,
                   ji, tokenBuf, joinToken>>
    /\ UNCHANGED initVars

\* sshClient.Run of "cat /var/lib/rancher/k3s/server/node-token", its stdout
\* captured in tokenBuf.
BsCat ==
    /\ pc = "bsCat"
    /\ \E ok \in BOOLEAN, content \in TokenContent :
        /\ tokenBuf' = content
        /\ log' = Append(log, Call("bootstrap", "cat", firstMaster, ok))
        /\ perr' = IF ~CommandFails(ok) THEN "nil" ELSE "command"
    /\ pc' = "bsClose"
    /\ UNCHANGED <<cluster, extraOptions, sessions, ret, firstMaster, nodes,
                   ji, joinToken>>
    /\ UNCHANGED initVars

\* The return of bootstrap with its deferred sshClient.Close(), and Deploy's
\* check of the error.
BsClose ==
    /\ pc = "bsClose"
    /\ sessions' = CloseSession(sessions, "bootstrap", firstMaster)
    /\ IF ~BootstrapReturnsError(perr)
       THEN /\ joinToken' = TrimSuffix(tokenBuf)
            /\ pc' = "listNodes"
            /\ UNCHANGED ret
       ELSE /\ joinToken' = <<>>
            /\ Fail(perr)
    /\ perr' = "nil"
    /\ UNCHANGED <<cluster, extraOptions, firstMaster, nodes, ji, tokenBuf,
                   log>>
    /\ UNCHANGED initVars

\* ----------------------------------------------------------------- join
\* The check of the empty list left out.
NoNodesAs(l) == FALSE

\* if len(nodes) == 0 { return errors.New("no nodes available") }
NoNodes(l) == Len(l) = 0

\* k.nodeManager.ListNodes(cluster.Name) and the check of an empty list.
ListNodes ==
    /\ pc = "listNodes"
    /\ \E ok \in BOOLEAN, l \in NodeList :
        /\ log' = Append(log, Call("nm", "ListNodes", 0, ok))
        /\ IF ~ok
           THEN Fail("listNodes") /\ UNCHANGED <<nodes, ji>>
           ELSE IF NoNodes(l)
           THEN Fail("noNodes") /\ nodes' = l /\ UNCHANGED ji
           ELSE /\ nodes' = l
                /\ ji' = 1
                /\ pc' = "joinLoop"
                /\ UNCHANGED ret
    /\ UNCHANGED <<cluster, extraOptions, sessions, firstMaster, perr,
                   tokenBuf, joinToken>>
    /\ UNCHANGED initVars

\* The test of the first master left out.
SkipNodeAs(n) == FALSE

\* if n.Name == firstMaster.Name { continue }
SkipNode(n) == n = firstMaster

\* The head of the loop over nodes: the end of the loop, a skipped node, or
\* the call of join.
JoinNext ==
    /\ pc = "joinLoop"
    /\ IF ji > Len(nodes)
       THEN /\ pc' = "Done"
            /\ ret' = "nil"
            /\ UNCHANGED ji
       ELSE IF SkipNode(nodes[ji])
       THEN /\ ji' = ji + 1
            /\ UNCHANGED <<pc, ret>>
       ELSE /\ pc' = "joinConnect"
            /\ UNCHANGED <<ji, ret>>
    /\ UNCHANGED <<cluster, extraOptions, sessions, firstMaster, nodes, perr,
                   tokenBuf, joinToken, log>>
    /\ UNCHANGED initVars

\* The error of join ignored: the loop goes on.
JoinReturnsErrorAs(err) == FALSE

\* Deploy: if err := k.join(...); err != nil { return err }
JoinReturnsError(err) == err # "nil"

\* utilssh.NewClient of join, and Deploy's check of its error.
JoinConnect ==
    /\ pc = "joinConnect"
    /\ \E ok \in BOOLEAN :
        /\ log' = Append(log, Call("join", "connect", nodes[ji], ok))
        /\ IF ok
           THEN /\ sessions' = sessions \cup
                        {[owner |-> "join", node |-> nodes[ji]]}
                /\ pc' = "joinRun"
                /\ UNCHANGED <<ret, ji>>
           ELSE /\ UNCHANGED sessions
                /\ IF JoinReturnsError("connect")
                   THEN Fail("connect") /\ UNCHANGED ji
                   ELSE /\ ji' = ji + 1
                        /\ pc' = "joinLoop"
                        /\ UNCHANGED ret
    /\ UNCHANGED <<cluster, extraOptions, firstMaster, nodes, perr,
                   tokenBuf, joinToken>>
    /\ UNCHANGED initVars

\* The agent options appended outside the else branch.
JoinOptsAs(n, eo) ==
    (IF IsMaster(n)
     THEN <<"--server">> \o OptIfSet(eo.ServerInstallOpts)
     ELSE <<>>) \o OptIfSet(eo.AgentInstallOpts)

\* k3sOpts of join: "--server" and the server options for a master, the
\* agent options for any other node.
JoinOpts(n, eo) ==
    IF IsMaster(n)
    THEN <<"--server">> \o OptIfSet(eo.ServerInstallOpts)
    ELSE OptIfSet(eo.AgentInstallOpts)

\* sshClient.Run of the k3s-install.sh command of join.
JoinRun ==
    /\ pc = "joinRun"
    /\ \E ok \in BOOLEAN :
        /\ log' = Append(log,
                Entry("join", "join", nodes[ji], ok,
                      JoinOpts(nodes[ji], extraOptions),
                      extraOptions.ExtraOptions, Address(firstMaster),
                      joinToken))
        /\ perr' = IF ok THEN "nil" ELSE "command"
    /\ pc' = "joinClose"
    /\ UNCHANGED <<cluster, extraOptions, sessions, ret, firstMaster, nodes,
                   ji, tokenBuf, joinToken>>
    /\ UNCHANGED initVars

\* The return of join with its deferred sshClient.Close(), and Deploy's
\* check of the error.
JoinClose ==
    /\ pc = "joinClose"
    /\ sessions' = CloseSession(sessions, "join", nodes[ji])
    /\ IF JoinReturnsError(perr)
       THEN Fail(perr) /\ UNCHANGED ji
       ELSE /\ ji' = ji + 1
            /\ pc' = "joinLoop"
            /\ UNCHANGED ret
    /\ perr' = "nil"
    /\ UNCHANGED <<cluster, extraOptions, firstMaster, nodes, tokenBuf,
                   joinToken, log>>
    /\ UNCHANGED initVars

\* ----------------------------------------------------------------- spec
Next ==
    \/ Before
    \/ WaitNodesRunning
    \/ InitStart
    \/ Spawn
    \/ WgWait
    \/ Collect
    \/ \E n \in Node : TaskConnect(n)
    \/ \E n \in Node : TaskRun(n)
    \/ \E n \in Node : TaskSend(n)
    \/ \E n \in Node : TaskClose(n)
    \/ \E n \in Node : TaskDone(n)
    \/ GetNode
    \/ BsConnect
    \/ BsInstall
    \/ BsCat
    \/ BsClose
    \/ ListNodes
    \/ JoinNext
    \/ JoinConnect
    \/ JoinRun
    \/ JoinClose

Spec == Init /\ [][Next]_vars

\* The steps of the main thread, and of the goroutine of node n.
Main ==
    \/ Before \/ WaitNodesRunning \/ InitStart \/ Spawn \/ WgWait \/ Collect
    \/ GetNode \/ BsConnect \/ BsInstall \/ BsCat \/ BsClose
    \/ ListNodes \/ JoinNext \/ JoinConnect \/ JoinRun \/ JoinClose

Task(n) ==
    TaskConnect(n) \/ TaskRun(n) \/ TaskSend(n) \/ TaskClose(n) \/ TaskDone(n)

\* Deploy with its scheduling: every call of the main thread returns, and
\* the Go scheduler runs every goroutine that can run.
FairSpec ==
    /\ Init /\ [][Next]_vars
    /\ WF_vars(Main)
    /\ \A n \in Node : WF_vars(Task(n))

\* --------------------------------------------------------------- claims
Range(s) == {s[i] : i \in DOMAIN s}

\* Deploy has returned.
Returned == pc \in {"Done", "Failed"}

\* The nodes of the cluster whose command batch failed in init.
BatchFailed == {n \in ClusterNodes : runFailed[n]}

\* Entries of the log made by bootstrap, and by join.
BootstrapEntries == {i \in DOMAIN log : log[i].phase = "bootstrap"}
JoinEntries == {i \in DOMAIN log : log[i].phase = "join"}

\* C1: once the command batch of a node has failed in init, no node is
\* looked up, bootstrapped or joined and no session is opened for bootstrap
\* or join; when Deploy returns, it returns the error of init, which names
\* every node whose batch failed.
C1_InitFailureAborts ==
    BatchFailed # {} =>
        /\ \A i \in DOMAIN log : log[i].op = "WaitNodesRunning"
        /\ \A s \in sessions : s.owner = "init"
        /\ firstMaster = 0
        /\ Returned => ret = "init" /\ BatchFailed \subseteq Range(initErr)

C1_Witness ==
    /\ pc = "Failed"
    /\ ret = "init"
    /\ Cardinality(BatchFailed) >= 2
    /\ BatchFailed = Range(initErr)

\* The retry of node n gave up without a session: every attempt of
\* utilssh.NewClient failed.
ConnectExhausted(n) ==
    n \in ClusterNodes /\ tpc[n] \in {"exit", "done"} /\ batchRuns[n] = 0

\* C2: in a 2-node cluster whose secondary cannot be reached in init,
\* bootstrap is never invoked and Deploy returns the error of init, naming
\* the secondary.
C2_ConnectFailureAborts ==
    (cluster.n = 2 /\ ConnectExhausted(2)) =>
        /\ BootstrapEntries = {}
        /\ Returned => ret = "init" /\ 2 \in Range(initErr)

\* The phase of Deploy a position of the main thread belongs to.
Phase(p) ==
    CASE p = "before" -> 0
      [] p = "waitRunning" -> 1
      [] p \in {"init", "spawn", "wait", "collect"} -> 2
      [] p = "getNode" -> 3
      [] p \in {"bsConnect", "bsInstall", "bsCat", "bsClose"} -> 4
      [] p = "listNodes" -> 5
      [] p \in {"joinLoop", "joinConnect", "joinRun", "joinClose"} -> 6
      [] p = "Done" -> 7
      [] p = "Failed" -> 8

\* Every join entry of the log comes after a successful install and a
\* successful read of the token on the first master.
BootstrapBeforeJoin ==
    \A j \in JoinEntries :
        /\ \E i \in 1..(j - 1) :
            /\ log[i].op = "install" /\ log[i].ok
            /\ log[i].node = FirstMasterName
        /\ \E i \in 1..(j - 1) : log[i].op = "cat" /\ log[i].ok

\* A call of this step failed.
CallFailed == Len(log') = Len(log) + 1 /\ ~log'[Len(log')].ok

\* C3: every step of Deploy stays in its phase, enters the next one, or
\* fails; Done follows Join only, and Done and Failed are never left; a
\* failed call ends in Failed, at once or through the deferred Close of the
\* session; every join comes after the successful bootstrap.
C3_PhaseOrder ==
    [][/\ \/ Phase(pc') = Phase(pc)
          \/ Phase(pc) < 7 /\ Phase(pc') = Phase(pc) + 1
          \/ Phase(pc) < 7 /\ pc' = "Failed"
       /\ CallFailed =>
            \/ pc' = "Failed"
            \/ pc' \in {"bsClose", "joinClose"} /\ perr' # "nil"
       /\ (pc \in {"bsClose", "joinClose"} /\ perr # "nil") => pc' = "Failed"
       /\ BootstrapBeforeJoin']_vars

C3_Witness ==
    /\ pc = "Done"
    /\ Cardinality(JoinEntries) >= 4
    /\ BootstrapBeforeJoin

\* init has returned to Deploy.
InitReturned ==
    \/ Phase(pc) \in 3..7
    \/ pc = "Failed" /\ ret \notin {"before", "notRunning"}

\* C4: when the barrier of init is passed, the goroutine of every node of
\* the cluster has finished; while one of them has not, nothing but the
\* readiness wait has been called and no session of bootstrap or join is
\* open.
C4_Barrier ==
    /\ (pc = "collect" \/ InitReturned) =>
            \A n \in ClusterNodes : tpc[n] = "done"
    /\ (\E n \in ClusterNodes : tpc[n] \notin {"idle", "done"}) =>
            /\ \A i \in DOMAIN log : log[i].op = "WaitNodesRunning"
            /\ \A s \in sessions : s.owner = "init"

C4_Witness ==
    /\ pc = "collect"
    /\ cluster.n >= 2
    /\ Len(chErr) >= 1
    /\ \E n \in ClusterNodes : batchRuns[n] = 1 /\ ~runFailed[n]
    /\ \A n \in ClusterNodes : tpc[n] = "done"

\* C5 as claimed: the closure of a node is never called a second time.
C5_OneAttemptPerNode == \A n \in Node : attempts[n] <= 1

\* C5, amended: the command batch runs at most once per node, a node is
\* attempted again only while it has had no session, and no more often
\* than retry.Do allows.
C5_OneBatchPerNode ==
    \A n \in Node :
        /\ batchRuns[n] <= 1
        /\ attempts[n] <= RetryAttempts
        /\ tpc[n] = "connect" => batchRuns[n] = 0
        /\ n \notin ClusterNodes => attempts[n] = 0 /\ batchRuns[n] = 0

C5_Witness ==
    /\ \E n \in ClusterNodes :
        attempts[n] = 2 /\ batchRuns[n] = 1 /\ tpc[n] = "close"
    /\ \E n \in ClusterNodes : runFailed[n] /\ tpc[n] = "done"

\* The nodes join is called for, in order, and the nodes of the list that
\* are to be joined.
IsJoinConnect(e) == e.phase = "join" /\ e.op = "connect"
JoinAttempts == SelectSeq(log, IsJoinConnect)
NotFirstMaster(n) == n # firstMaster
ToJoin == SelectSeq(nodes, NotFirstMaster)

\* C6: the nodes join was called for are the first nodes of the list, the
\* first master left out, in the order of the list; at most one session of
\* join is open; a failed call of join is the last call of the run, and
\* Deploy returns its error.
C6_JoinInOrder ==
    /\ Len(JoinAttempts) <= Len(ToJoin)
    /\ \A i \in DOMAIN JoinAttempts : JoinAttempts[i].node = ToJoin[i]
    /\ Cardinality({s \in sessions : s.owner = "join"}) <= 1
    /\ \A i \in JoinEntries :
        ~log[i].ok =>
            /\ i = Len(log)
            /\ pc \in {"joinClose", "Failed"}
            /\ pc = "Failed" => ret \in {"connect", "command"}

C6_Witness ==
    /\ pc = "Failed"
    /\ Len(ToJoin) = 2
    /\ Len(JoinAttempts) = 1
    /\ log[Len(log)].op = "join"
    /\ ~log[Len(log)].ok

\* The join commands of the log.
JoinCommands == {i \in DOMAIN log : log[i].op = "join"}

\* C7: every join command carries the same token, which is the captured
\* content of the token file without its last character when that is a
\* newline, and the captured content itself otherwise.
C7_JoinToken ==
    \A i \in JoinCommands :
        /\ \A j \in JoinCommands : log[j].token = log[i].token
        /\ \/ tokenBuf = log[i].token \o <<"\n">>
           \/ /\ tokenBuf = log[i].token
              /\ (tokenBuf = <<>> \/ tokenBuf[Len(tokenBuf)] # "\n")

C7_Witness ==
    /\ Cardinality(JoinCommands) = 2
    /\ tokenBuf = <<"\n", "\n">>
    /\ \A i \in JoinCommands : log[i].token = <<"\n">>

\* The install commands of bootstrap in the log.
InstallCommands == {i \in DOMAIN log : log[i].op = "install"}

\* C8: the install command of bootstrap has the --cluster-init flag exactly
\* when the cluster has more than one node.
C8_ClusterInitFlag ==
    \A i \in InstallCommands :
        ("--cluster-init" \in Range(log[i].exec)) <=> (cluster.n > 1)

C8_Witness ==
    /\ cluster.n = 1
    /\ \E i \in InstallCommands :
        /\ log[i].ok
        /\ log[i].exec = <<"--bind-address", "--srv-opt">>

\* C9: the join command of a master has the --server flag and, of the
\* extra options, the server options only; the join command of any other
\* node has neither the --server flag nor the server options, only the
\* agent options.
C9_JoinRoleOptions ==
    \A i \in JoinCommands :
        IF IsMaster(log[i].node)
        THEN /\ "--server" \in Range(log[i].exec)
             /\ Range(log[i].exec) =
                    {"--server", extraOptions.ServerInstallOpts} \ {""}
             /\ Range(log[i].exec) \cap AgentOptValue = {}
        ELSE /\ "--server" \notin Range(log[i].exec)
             /\ Range(log[i].exec) = {extraOptions.AgentInstallOpts} \ {""}
             /\ Range(log[i].exec) \cap ServerOptValue = {}

C9_Witness ==
    /\ extraOptions.ServerInstallOpts # ""
    /\ extraOptions.AgentInstallOpts # ""
    /\ \E i \in JoinCommands : IsMaster(log[i].node)
    /\ \E i \in JoinCommands : ~IsMaster(log[i].node)

\* The pre-hook was called and failed.
HookFailed == \E i \in DOMAIN log : log[i].op = "before" /\ ~log[i].ok

\* C10: when the pre-hook fails, Deploy returns its error and nothing else
\* has happened: no call of the node manager, no goroutine, no session.
C10_HookFailureAborts ==
    HookFailed =>
        /\ pc = "Failed"
        /\ ret = "before"
        /\ Len(log) = 1
        /\ sessions = {}
        /\ \A n \in Node : tpc[n] = "idle" /\ attempts[n] = 0

C10_Witness == HookFailed /\ Returned

\* The node manager listed no node.
ListedEmpty ==
    /\ nodes = <<>>
    /\ \E i \in DOMAIN log : log[i].op = "ListNodes" /\ log[i].ok

\* C11: when the listing made after the bootstrap is empty, Deploy fails
\* with "no nodes available"; the listing is the last call of the run, after
\* the successful install on the first master: nothing is joined and
\* nothing more is done to the first master.
C11_NoNodesAvailable ==
    ListedEmpty =>
        /\ pc = "Failed"
        /\ ret = "noNodes"
        /\ JoinEntries = {}
        /\ log[Len(log)].op = "ListNodes"
        /\ \E i \in InstallCommands : log[i].ok /\ log[i].node = firstMaster
        /\ sessions = {}

C11_Witness == ListedEmpty /\ Returned /\ cluster.n >= 2

\* C12: join is never called with an empty join token.
C12_NonEmptyToken == JoinEntries # {} => joinToken # <<>>

\* No element occurs twice in s.
NoDup(s) == \A i, j \in DOMAIN s : i # j => s[i] # s[j]

\* The failures sent by the goroutines: those collected already and those
\* still in the channel.
Collected == initErr \o chErr

\* C13: a failure is collected for a node whose batch failed only, and at
\* most once; when init has returned, the goroutine of every node has run
\* to its end, the error of init has exactly one entry for each node whose
\* batch failed, and Deploy got an error from init exactly when there is
\* such a node.
C13_CollectAll ==
    /\ NoDup(Collected)
    /\ Range(Collected) \subseteq BatchFailed
    /\ InitReturned =>
        /\ \A n \in ClusterNodes : tpc[n] = "done"
        /\ Range(initErr) = BatchFailed
        /\ Len(initErr) = Cardinality(BatchFailed)
        /\ (ret = "init") <=> (BatchFailed # {})

C13_Witness ==
    /\ pc = "Failed"
    /\ ret = "init"
    /\ Len(initErr) = 2
    /\ initErr[1] > initErr[2]

\* C14: the failures sent never outnumber the nodes of the cluster, each
\* node has sent at most one; a goroutine about to send finds room in the
\* channel and the channel open; the channel is closed only when every
\* goroutine has finished; when every goroutine has finished, the counter of
\* the barrier is zero.
C14_CollectorBounded ==
    /\ Len(Collected) <= cluster.n
    /\ \A n \in Node :
        /\ Cardinality({i \in DOMAIN Collected : Collected[i] = n}) <= 1
        /\ tpc[n] = "send" => Len(chErr) < ChanCap /\ ~chClosed
        /\ tpc[n] # "panic"
    /\ ~panicked
    /\ chClosed => \A n \in ClusterNodes : tpc[n] = "done"
    /\ (pc = "wait" /\ \A n \in ClusterNodes : tpc[n] = "done") =>
            wgInitNodes = 0

C14_Witness ==
    /\ pc = "wait"
    /\ cluster.n >= 2
    /\ Len(chErr) = cluster.n
    /\ \E n \in ClusterNodes : tpc[n] = "close"

\* The sessions of an owner.
SessionsOf(owner) == {s \in sessions : s.owner = owner}

\* C15: the session of a node's goroutine is open only between its
\* NewClient and its deferred Close, so it is closed when the goroutine
\* signals the barrier; the session of bootstrap and of join is open only
\* inside the call; from the return of init on at most one session is open,
\* and none when Deploy has returned.
C15_SessionsClosed ==
    /\ \A n \in Node :
        tpc[n] \in {"idle", "connect", "exit", "done"} =>
            [owner |-> "init", node |-> n] \notin sessions
    /\ pc \notin {"bsInstall", "bsCat", "bsClose"} =>
            SessionsOf("bootstrap") = {}
    /\ pc \notin {"joinRun", "joinClose"} => SessionsOf("join") = {}
    /\ InitReturned => Cardinality(sessions) <= 1
    /\ Returned => sessions = {}

C15_Witness ==
    /\ pc = "Failed"
    /\ ret = "command"
    /\ log[Len(log)].op = "join"
    /\ \E n \in ClusterNodes : batchRuns[n] = 1
    /\ sessions = {}

\* s is a prefix of t.
IsPrefix(s, t) == Len(s) <= Len(t) /\ SubSeq(t, 1, Len(s)) = s

\* No entry of the log after entry i is about the node of entry i.
LastOnNode(i) == \A j \in (i + 1)..Len(log) : log[j].node # log[i].node

\* C16: the calls made are never taken back, the log only grows; after the
\* successful read of the token nothing more is done to the first master,
\* and after the successful join of a node nothing more is done to that
\* node, whatever happens to the nodes after it.
C16_NoRollback ==
    [][/\ IsPrefix(log, log')
       /\ \A i \in DOMAIN log' :
            (log'[i].op \in {"cat", "join"} /\ log'[i].ok) =>
                \A j \in (i + 1)..Len(log') : log'[j].node # log'[i].node]_vars

C16_Witness ==
    /\ pc = "Failed"
    /\ \E i \in JoinCommands : log[i].ok /\ LastOnNode(i)
    /\ log[Len(log)].phase = "join"
    /\ ~log[Len(log)].ok

\* The entries of the log of an operation of bootstrap.
BootstrapOp(op) == {i \in BootstrapEntries : log[i].op = op}

\* C17: the token is read right after the successful install on the same
\* node; bootstrap opens one session and runs each command once at most; a
\* failed call of bootstrap is the last call of the run, the token
\* returned is empty and Deploy returns the error.
C17_BootstrapFailure ==
    /\ \A j \in BootstrapOp("cat") :
        /\ j > 1
        /\ log[j - 1].op = "install"
        /\ log[j - 1].ok
        /\ log[j - 1].node = log[j].node
    /\ \A op \in {"connect", "install", "cat"} :
        Cardinality(BootstrapOp(op)) <= 1
    /\ \A i \in BootstrapEntries :
        ~log[i].ok =>
            /\ i = Len(log)
            /\ pc \in {"bsClose", "Failed"}
            /\ pc = "Failed" =>
                    joinToken = <<>> /\ ret \in {"connect", "command"}

C17_Witness ==
    /\ pc = "Failed"
    /\ log[Len(log)].op = "cat"
    /\ ~log[Len(log)].ok
    /\ tokenBuf # <<>>
    /\ joinToken = <<>>

\* The join commands sent to node n.
JoinCommandsTo(n) == {i \in JoinCommands : log[i].node = n}

\* C18: join is never called for the first master; when Deploy returns
\* without error, every other node of the list got exactly one join
\* command.
C18_JoinAllButFirstMaster ==
    /\ \A i \in JoinEntries : log[i].node # FirstMasterName
    /\ pc = "Done" =>
        \A k \in DOMAIN nodes :
            nodes[k] # firstMaster =>
                Cardinality(JoinCommandsTo(nodes[k])) = 1

C18_Witness ==
    /\ pc = "Done"
    /\ Len(nodes) = 3
    /\ nodes[2] = firstMaster
    /\ Cardinality(JoinCommands) = 2

\* The listing after the bootstrap succeeded.
Listed == \E i \in DOMAIN log : log[i].op = "ListNodes" /\ log[i].ok

\* C19 as claimed: in a cluster of one node, whatever the node manager
\* lists after the bootstrap, no join is called and Deploy returns no error.
C19_SingleNodeNoJoin ==
    (cluster.n = 1 /\ Listed) =>
        /\ JoinEntries = {}
        /\ Returned => ret = "nil"

\* C19, amended: in a cluster of one node the install command has no
\* --cluster-init flag, and when the node manager lists the first master
\* and no other node, no join is called and Deploy returns no error.
C19_SingleNodeListed ==
    (cluster.n = 1 /\ Listed /\ nodes = <<FirstMasterName>>) =>
        /\ \A i \in InstallCommands :
            "--cluster-init" \notin Range(log[i].exec)
        /\ JoinEntries = {}
        /\ pc \in {"joinLoop", "Done"}
        /\ Returned => ret = "nil"

C19_Witness ==
    /\ cluster.n = 1
    /\ Listed
    /\ nodes = <<FirstMasterName>>
    /\ pc = "Done"

\* C20: Deploy returns: the main thread reaches Done or Failed, and so
\* passes the barrier of init whenever it has come to wait at it.
C20_Terminates == <>Returned

C20_Witness ==
    /\ pc = "Done"
    /\ cluster.n >= 2
    /\ ConnectExhausted(2)
    /\ Cardinality(JoinCommands) >= 1

====
